---- MODULE Spec2Model ----
(***************************************************************************)
(* Partial-label training loop of trainer_idpll.Trainer together with the  *)
(* fgvc100 data loader (datasets/fgvc100.py).                              *)
(*                                                                         *)
(* Tensors are modelled exactly: a matrix is a function Indices ->         *)
(* Classes -> value, a float quotient a/b is the unreduced pair            *)
(* [num |-> a, den |-> b] (so 0/0 is NaN and 1/0 is inf, as in torch).     *)
(***************************************************************************)
EXTENDS Integers, Sequences, FiniteSets, TLC

\* ------------------------------------------------------------------ bounds
NumInstances == 3
NumClasses == 2
MaxEpochs == 2

Indices == 0 .. (NumInstances - 1)
Classes == 0 .. (NumClasses - 1)

\* ------------------------------------------------------------ configuration
BatchSizes == 1 .. NumInstances
MicroBatchSizes == {1, 2}
Precisions == {"amp", "int8"}
LossTypes == {"Solar", "PRODEN", "DIRK", "Bogus"}
TteModes == {"none", "tencrop"}

Configs ==
  [batch_size : BatchSizes, micro_batch_size : MicroBatchSizes,
   prec : Precisions, loss_type : LossTypes,
   num_epochs : {0, MaxEpochs}, tte_mode : TteModes, init_head : {"none"}]

\* cfg.init_head: the values build_model tells apart, and one it does not know
InitHeads == {"text_feat", "class_mean", "linear_probe", "none", "bogus"}

\* configurations that differ in the head initialization
HeadConfigs ==
  [batch_size : {NumInstances}, micro_batch_size : {1}, prec : {"amp"},
   loss_type : {"Solar", "PRODEN"}, num_epochs : {0, MaxEpochs},
   tte_mode : {"none"}, init_head : InitHeads]

\* load_clip_to_cpu: assert prec in ["fp16", "fp32", "amp"]
SupportedPrecisions == {"fp16", "fp32", "amp"}

\* utils.algorithms.get_algorithm_class: the registry of algorithm names
KnownAlgorithms == {"Solar", "PRODEN", "DIRK", "ABLE", "PiCO"}

\* build_model / build_optimizer: algorithms whose model carries a neck
NeckAlgorithms == {"DIRK", "ABLE", "PiCO"}

None == "None"

VARIABLES
  cfg,            \* the configuration handed to Trainer(cfg)
  pc,             \* position of the controlling thread
  error,          \* the exception that ended the run, or None
  device,         \* what has been moved to the accelerator
  partialY,       \* Trainer.partialY
  train_loader,   \* Trainer.train_loader
  accum_step,     \* Trainer.accum_step
  requires_grad,  \* modules whose parameters have requires_grad
  optim_params,   \* modules whose parameters the optimizer holds
  confidence,     \* Trainer.confidence
  epoch_idx,      \* epoch_idx of train()
  remaining,      \* indices the epoch's iterator has not yielded yet
  delivered,      \* per index: times handed to algorithm.update this epoch
  trace,          \* events of the current epoch
  evals,          \* completed calls of test()
  saved,          \* completed calls of save_model()
  head_init,      \* the head initializations build_model has applied, in order
  batch_device,   \* the batch handed to algorithm.update in this iteration
  image,          \* test(): the batch of multi-crop images under evaluation
  output,         \* test(): what was handed to evaluator.process
  tuner,          \* self.tuner.state_dict()
  head,           \* self.head.state_dict()
  checkpoint,     \* the file checkpoint.pth.tar of the directory
  ckpt_op,        \* the last checkpoint operation this trainer completed
  last_saved      \* the tuner and head state dicts at the last save_model()

vars == <<cfg, pc, error, device, partialY, train_loader, accum_step,
          requires_grad, optim_params, confidence, epoch_idx, remaining,
          delivered, trace, evals, saved, head_init, batch_device, image, output,
          tuner, head,
          checkpoint, ckpt_op, last_saved>>

\* the state of test() and of the checkpoint operations called on their own
standalone == <<image, output, tuner, head, checkpoint, ckpt_op, last_saved>>

\* the state of the Trainer's construction and of train()
training == <<cfg, pc, error, device, partialY, train_loader, accum_step,
              requires_grad, optim_params, confidence, epoch_idx, remaining,
              delivered, trace, evals, saved, head_init, batch_device>>

\* ------------------------------------------------------------------ helpers
RECURSIVE SumUpTo(_, _)
SumUpTo(f, k) == IF k < 0 THEN 0 ELSE f[k] + SumUpTo(f, k - 1)

\* torch.sum over one row (dim=1)
RowSum(m, i) == SumUpTo(m[i], NumClasses - 1)

\* float division of torch: a/b kept as an unreduced quotient
TorchDiv(a, b) == [num |-> a, den |-> b]

IsNaN(v) == v.den = 0 /\ v.num = 0
IsZero(v) == v.den # 0 /\ v.num = 0
FracEq(v, n, d) == v.den # 0 /\ d # 0 /\ v.num * d = n * v.den

\* original_train._labels: the true label of sample i (every class is used)
image_labels == [i \in Indices |-> i % NumClasses]

\* variant: the full loader yields the samples in another order than the dataset
FullLoaderLabelsShuffled(labels) == [i \in Indices |-> labels[(i + 1) % NumInstances]]

\* load_fgvc100 lines 17-20: one batch of the whole split, shuffle=False, so
\* ori_labels[i] is the label of sample i
FullLoaderLabels(labels) == [i \in Indices |-> labels[i]]

ori_labels == FullLoaderLabels(image_labels)

BinaryMatrices == [Indices -> [Classes -> {0, 1}]]

\* utils.util.generate_instancedependent_candidate_labels: every non-true class
\* is an independent Bernoulli draw, the true class is set unconditionally
GenerateCandidates(labels) ==
  {m \in BinaryMatrices : \A i \in Indices : m[i][labels[i]] = 1}

\* a generator that breaks its postcondition (corrupted oracle output)
GenerateUnchecked(labels) == BinaryMatrices

\* load_fgvc100: temp = one-hot(ori_labels); torch.sum(partialY_matrix * temp)
OneHot(labels) == [i \in Indices |-> [c \in Classes |-> IF c = labels[i] THEN 1 ELSE 0]]

RECURSIVE SumRows(_, _)
SumRows(m, i) == IF i < 0 THEN 0 ELSE RowSum(m, i) + SumRows(m, i - 1)

MaskedSum(m, labels) ==
  SumRows([i \in Indices |-> [c \in Classes |-> m[i][c] * OneHot(labels)[i][c]]],
          NumInstances - 1)

\* load_fgvc100 line 46: the condition that guards print('data loading done !')
ValidationPasses(m, labels) == MaskedSum(m, labels) = NumInstances

\* load_fgvc100 lines 49-59: the loader is built and returned whatever the
\* validation said
load_fgvc100(c, m, labels) ==
  [labels |-> image_labels, given_partial_label_matrix |-> m, true_labels |-> labels,
   batch_size |-> c.batch_size, shuffle |-> TRUE, drop_last |-> TRUE]

\* ------------------------------------------------------------------ test()
\* bound on the crop count (cfg.randaug_times) and the batch of test()
MaxCrops == 6
MaxBsz == 2
MaxScore == 1

\* test() line 531: if _ncrops <= 5
VectorizedCropLimit == 5

TypeError == "TypeError"

\* the outcome of a computation: a value, or the exception it raised
Returned(v) == [exc |-> None, value |-> v]
Raised(e) == [exc |-> e, value |-> <<>>]

\* Python values that torch tells apart: a tensor and a tuple
Tensor(data) == [kind |-> "tensor", data |-> data]
PyTuple(items) == [kind |-> "tuple", items |-> items]

\* self.model(image): the call site of line 532 unpacks two values, the class
\* scores and a second output; the scores of a row depend on that row only
ModelForward(x) == PyTuple(<<Tensor(x.data), "feature">>)

\* torch.stack(list): every element has to be a tensor
TorchStack(list) ==
  IF \E k \in DOMAIN list : list[k].kind # "tensor"
  THEN Raised(TypeError)
  ELSE Returned(Tensor([k \in DOMAIN list |-> list[k].data]))

RECURSIVE SumSeq(_, _)
SumSeq(f, k) == IF k < 1 THEN 0 ELSE f[k] + SumSeq(f, k - 1)

\* image.view(_bsz * _ncrops, ...): row-major flattening of [b][k]
ViewFlat(img, bsz, ncrops) ==
  Tensor([f \in 1 .. (bsz * ncrops) |->
            img.data[((f - 1) \div ncrops) + 1][((f - 1) % ncrops) + 1]])

\* output.view(_bsz, _ncrops, -1).mean(dim=1)
ViewMeanDim1(flat, bsz, ncrops) ==
  Tensor([b \in 1 .. bsz |->
     TorchDiv(SumSeq([k \in 1 .. ncrops |-> flat.data[(b - 1) * ncrops + k]], ncrops),
              ncrops)])

\* lines 532-533: output, _ = self.model(image); view; mean
VectorizedPath(img, bsz, ncrops) ==
  Returned(ViewMeanDim1(ModelForward(ViewFlat(img, bsz, ncrops)).items[1], bsz, ncrops))

\* torch.stack(output).mean(dim=0) for a list of per-crop [bsz] tensors
StackMeanDim0(list, bsz, ncrops) ==
  LET stacked == TorchStack(list) IN
  IF stacked.exc # None THEN stacked
  ELSE Returned(Tensor([b \in 1 .. bsz |->
          TorchDiv(SumSeq([k \in 1 .. ncrops |-> stacked.value.data[k][b]], ncrops),
                   ncrops)]))

\* image[:, k]
CropSlice(img, bsz, k) == Tensor([b \in 1 .. bsz |-> img.data[b][k]])

\* lines 538-542: the per-crop loop appends self.model(image[:, k]) as returned
LoopPath(img, bsz, ncrops) ==
  StackMeanDim0([k \in 1 .. ncrops |-> ModelForward(CropSlice(img, bsz, k))],
                bsz, ncrops)

\* test() lines 528-544: the value passed to evaluator.process
TestOutput(img, bsz, ncrops) ==
  IF ncrops <= VectorizedCropLimit
  THEN VectorizedPath(img, bsz, ncrops)
  ELSE LoopPath(img, bsz, ncrops)

\* build_data_loader lines 133-164: crops per test image of each tte mode
NCrops(c) == IF c.tte_mode = "tencrop" THEN 10 ELSE 1

\* whether test() raises under configuration c (the scores do not matter for it)
TestRaises(c) ==
  TestOutput(Tensor([b \in {1} |-> [k \in 1 .. NCrops(c) |-> 0]]), 1, NCrops(c)).exc
    # None

\* ---------------------------------------------------------- the data loader
\* variant: the short last batch is kept
NextBatchesKeepLast(loader, rem) ==
  {S \in SUBSET rem : Cardinality(S) = loader.batch_size}
    \cup (IF 0 < Cardinality(rem) /\ Cardinality(rem) < loader.batch_size
          THEN {rem} ELSE {})

\* DataLoader(shuffle=True, drop_last=True): the batches the iterator may yield
\* next, given the indices it has not yielded yet
NextBatches(loader, rem) ==
  {S \in SUBSET rem : Cardinality(S) = loader.batch_size}
    \cup (IF ~loader.drop_last /\ 0 < Cardinality(rem)
             /\ Cardinality(rem) < loader.batch_size
          THEN {rem} ELSE {})

\* FGVC100_Partialize.__getitem__: the candidate row, the true label and the
\* index of one sample (the two augmented views are left out)
GetItem(dataset, index) ==
  [each_label |-> dataset.given_partial_label_matrix[index],
   each_true_label |-> dataset.true_labels[index],
   index |-> index]

\* the items of one batch as the loader collates them, kept per sample index
Collate(loader, batch) == [i \in batch |-> GetItem(loader, i)]

\* ------------------------------------------------------------ Trainer set-up
\* variants of the uniform targets: divided by the class count, and ones over the
\* row sums
UniformTargetsByShape(m) ==
  [i \in Indices |-> [c \in Classes |-> TorchDiv(m[i][c], NumClasses)]]

UniformTargetsOnes(m) ==
  [i \in Indices |-> [c \in Classes |-> TorchDiv(1, RowSum(m, i))]]

\* build_criterion lines 302-303: tempY = row sums repeated, confidence = partialY/tempY
UniformTargets(m) ==
  [i \in Indices |-> [c \in Classes |-> TorchDiv(m[i][c], RowSum(m, i))]]

\* build_optimizer lines 265-277
RequiresGrad(c) ==
  {"tuner", "head"} \cup (IF c.loss_type \in NeckAlgorithms THEN {"neck"} ELSE {})

\* build_optimizer lines 291-293
OptimizerParams(c) == {"tuner", "head"}

\* variant: the hook is never called
AfterBatchesSkipHook(c) == "test"

\* train() lines 474-480: what follows the batch loop of an epoch
AfterBatches(c) == IF c.loss_type = "Solar" THEN "dist" ELSE "test"

\* build_model lines 243-250: the branch taken for a value of cfg.init_head
HeadInitStrategy(v) ==
  CASE v = "text_feat" -> "text_feat"
    [] v \in {"class_mean", "1_shot", "10_shot", "100_shot"} -> "class_mean"
    [] v = "linear_probe" -> "linear_probe"
    [] OTHER -> "no_init"

\* init_head_text_feat applies the text features; init_head_class_mean and
\* init_head_linear_probe iterate self.train_init_loader, which nothing assigns;
\* the else branch prints and leaves the head as built
ApplyHeadInit(strategy) ==
  IF strategy \in {"class_mean", "linear_probe"}
  THEN Raised("AttributeError")
  ELSE Returned(strategy)

Crash(e) == /\ error' = e
            /\ pc' = "crashed"

InitWith(configs) ==
  /\ cfg \in configs
  /\ pc = "build_data_loader"
  /\ error = None
  /\ device = {}
  /\ partialY = None
  /\ train_loader = None
  /\ accum_step = None
  /\ requires_grad = {}
  /\ optim_params = {}
  /\ confidence = None
  /\ epoch_idx = 0
  /\ remaining = {}
  /\ delivered = [i \in Indices |-> 0]
  /\ trace = <<>>
  /\ evals = 0
  /\ saved = 0
  /\ head_init = <<>>
  /\ batch_device = <<>>
  /\ image = None
  /\ output = None
  /\ tuner = None
  /\ head = None
  /\ checkpoint = None
  /\ ckpt_op = None
  /\ last_saved = <<>>

Init == InitWith(Configs)

\* build_data_loader line 171 -> load_fgvc100: the oracle goes to the accelerator,
\* the candidate matrix is generated and checked, the loaders are returned
LoadDataWith(m) ==
  /\ pc = "build_data_loader"
  /\ device' = device \cup {"oracle"}
  /\ partialY' = m
  /\ train_loader' = load_fgvc100(cfg, m, ori_labels)
  /\ pc' = "assert_batch"
  /\ UNCHANGED <<cfg, error, accum_step, requires_grad, optim_params, confidence,
                 epoch_idx, remaining, delivered, trace, evals, saved, head_init,
                 batch_device, standalone>>

LoadData == \E m \in GenerateCandidates(ori_labels) : LoadDataWith(m)

LoadDataUnchecked == \E m \in GenerateUnchecked(ori_labels) : LoadDataWith(m)

\* build_data_loader lines 186-187
AssertBatch ==
  /\ pc = "assert_batch"
  /\ IF cfg.batch_size % cfg.micro_batch_size = 0
     THEN /\ accum_step' = cfg.batch_size \div cfg.micro_batch_size
          /\ pc' = "load_backbone"
          /\ UNCHANGED error
     ELSE /\ Crash("AssertionError:batch_size")
          /\ UNCHANGED accum_step
  /\ UNCHANGED <<cfg, device, partialY, train_loader, requires_grad, optim_params,
                 confidence, epoch_idx, remaining, delivered, trace, evals, saved,
                 head_init, batch_device, standalone>>

\* build_model line 213 -> load_clip_to_cpu line 59 (the model is still on the CPU)
LoadBackbone ==
  /\ pc = "load_backbone"
  /\ IF cfg.prec \in SupportedPrecisions
     THEN pc' = "model_to_device" /\ UNCHANGED error
     ELSE Crash("AssertionError:prec")
  /\ UNCHANGED <<cfg, device, partialY, train_loader, accum_step, requires_grad,
                 optim_params, confidence, epoch_idx, remaining, delivered, trace,
                 evals, saved, head_init,
                 batch_device, standalone>>

\* build_model lines 215-226: self.model.to(self.device)
ModelToDevice ==
  /\ pc = "model_to_device"
  /\ device' = device \cup {"model"}
  /\ pc' = "build_optimizer"
  /\ UNCHANGED <<cfg, error, partialY, train_loader, accum_step, requires_grad,
                 optim_params, confidence, epoch_idx, remaining, delivered, trace,
                 evals, saved, head_init,
                 batch_device, standalone>>

\* build_optimizer
BuildOptimizer ==
  /\ pc = "build_optimizer"
  /\ requires_grad' = RequiresGrad(cfg)
  /\ optim_params' = OptimizerParams(cfg)
  /\ pc' = "build_criterion"
  /\ UNCHANGED <<cfg, error, device, partialY, train_loader, accum_step, confidence,
                 epoch_idx, remaining, delivered, trace, evals, saved, head_init,
                 batch_device, standalone>>

\* build_criterion: the uniform targets are computed and moved to the accelerator,
\* then the algorithm class is looked up by name and instantiated on the device
BuildCriterion ==
  /\ pc = "build_criterion"
  /\ confidence' = UniformTargets(partialY)
  /\ IF cfg.loss_type \in KnownAlgorithms
     THEN /\ device' = device \cup {"confidence", "algorithm"}
          /\ pc' = "init_head"
          /\ UNCHANGED error
     ELSE /\ device' = device \cup {"confidence"}
          /\ Crash("NotImplementedError:algorithm")
  /\ UNCHANGED <<cfg, partialY, train_loader, accum_step, requires_grad, optim_params,
                 epoch_idx, remaining, delivered, trace, evals, saved, head_init,
                 batch_device, standalone>>

\* build_model lines 243-252: the head initialization chosen by cfg.init_head
InitHead ==
  /\ pc = "init_head"
  /\ LET strategy == HeadInitStrategy(cfg.init_head)
         done == ApplyHeadInit(strategy)
     IN IF done.exc # None
        THEN Crash(done.exc) /\ UNCHANGED head_init
        ELSE /\ head_init' = Append(head_init, strategy)
             /\ pc' = "ready"
             /\ UNCHANGED error
  /\ UNCHANGED <<cfg, device, partialY, train_loader, accum_step, requires_grad,
                 optim_params, confidence, epoch_idx, remaining, delivered, trace,
                 evals, saved, batch_device, standalone>>

\* ------------------------------------------------------------------ train()
\* lines 433-452, then the head of the epoch loop
TrainBegin ==
  /\ pc = "ready"
  /\ epoch_idx' = 0
  /\ pc' = "epoch"
  /\ UNCHANGED <<cfg, error, device, partialY, train_loader, accum_step, requires_grad,
                 optim_params, confidence, remaining, delivered, trace, evals, saved,
                 head_init, batch_device, standalone>>

\* lines 453-460: a new iterator over the train loader
EpochStart ==
  /\ pc = "epoch"
  /\ epoch_idx < cfg.num_epochs
  /\ remaining' = Indices
  /\ delivered' = [i \in Indices |-> 0]
  /\ trace' = <<>>
  /\ pc' = "batch"
  /\ UNCHANGED <<cfg, error, device, partialY, train_loader, accum_step, requires_grad,
                 optim_params, confidence, epoch_idx, evals, saved, head_init,
                 batch_device, standalone>>

\* lines 463-472: one batch goes to algorithm.update; the batch carries the
\* candidate rows and the indices, the Trainer's confidence is not passed
Update ==
  /\ pc = "batch"
  /\ \E batch \in NextBatches(train_loader, remaining) :
       /\ remaining' = remaining \ batch
       /\ delivered' = [i \in Indices |->
                          IF i \in batch THEN delivered[i] + 1 ELSE delivered[i]]
       /\ batch_device' = Collate(train_loader, batch)
  /\ trace' = Append(trace, "update")
  /\ UNCHANGED <<cfg, pc, error, device, partialY, train_loader, accum_step,
                 requires_grad, optim_params, confidence, epoch_idx, evals, saved,
                 head_init, standalone>>

\* the iterator is exhausted (a short last batch is dropped)
BatchesDone ==
  /\ pc = "batch"
  /\ NextBatches(train_loader, remaining) = {}
  /\ pc' = AfterBatches(cfg)
  /\ batch_device' = <<>>
  /\ UNCHANGED <<cfg, error, device, partialY, train_loader, accum_step, requires_grad,
                 optim_params, confidence, epoch_idx, remaining, delivered, trace,
                 evals, saved, head_init, standalone>>

\* lines 474-475
DistributionUpdate ==
  /\ pc = "dist"
  /\ trace' = Append(trace, "dist")
  /\ pc' = "test"
  /\ UNCHANGED <<cfg, error, device, partialY, train_loader, accum_step, requires_grad,
                 optim_params, confidence, epoch_idx, remaining, delivered, evals,
                 saved, head_init, batch_device, standalone>>

\* line 480: self.test() closes the epoch
EpochTest ==
  /\ pc = "test"
  /\ IF TestRaises(cfg)
     THEN /\ Crash(TypeError)
          /\ UNCHANGED <<trace, evals, epoch_idx>>
     ELSE /\ trace' = Append(trace, "test")
          /\ evals' = evals + 1
          /\ epoch_idx' = epoch_idx + 1
          /\ pc' = "epoch"
          /\ UNCHANGED error
  /\ UNCHANGED <<cfg, device, partialY, train_loader, accum_step, requires_grad,
                 optim_params, confidence, remaining, delivered, saved, head_init,
                 batch_device, standalone>>

\* line 494: save_model after the loop
SaveAfterTraining ==
  /\ pc = "epoch"
  /\ epoch_idx >= cfg.num_epochs
  /\ saved' = saved + 1
  /\ pc' = "final_test"
  /\ UNCHANGED <<cfg, error, device, partialY, train_loader, accum_step, requires_grad,
                 optim_params, confidence, epoch_idx, remaining, delivered, trace,
                 evals, head_init, batch_device, standalone>>

\* line 496
FinalTest ==
  /\ pc = "final_test"
  /\ IF TestRaises(cfg)
     THEN Crash(TypeError) /\ UNCHANGED evals
     ELSE evals' = evals + 1 /\ pc' = "done" /\ UNCHANGED error
  /\ UNCHANGED <<cfg, device, partialY, train_loader, accum_step, requires_grad,
                 optim_params, confidence, epoch_idx, remaining, delivered, trace,
                 saved, head_init, batch_device, standalone>>

Construct == AssertBatch \/ LoadBackbone \/ ModelToDevice \/ BuildOptimizer
               \/ BuildCriterion \/ InitHead

Train == TrainBegin \/ EpochStart \/ Update \/ BatchesDone \/ DistributionUpdate
           \/ EpochTest \/ SaveAfterTraining \/ FinalTest

Next == LoadData \/ Construct \/ Train

Spec == Init /\ [][Next]_vars

\* the same program fed by a generator that does not keep its postcondition
NextUnchecked == LoadDataUnchecked \/ Construct \/ Train

SpecUnchecked == Init /\ [][NextUnchecked]_vars

\* the same program over the configurations of the head initialization
InitHeadConfigs == InitWith(HeadConfigs)

NextHead == LoadData \/ Construct \/ Train

SpecHead == InitHeadConfigs /\ [][NextHead]_vars

\* ------------------------------------------------------- test() on its own
Scores == 0 .. MaxScore

TestImages ==
  UNION {
    {[bsz |-> b, ncrops |-> n, pixels |-> Tensor(d)] :
       d \in [1 .. b -> [1 .. n -> Scores]]} :
    b \in 1 .. MaxBsz, n \in 1 .. MaxCrops}

\* a Trainer built from a valid configuration
IdleTrainer(c) ==
  /\ cfg = c
  /\ error = None
  /\ device = {}
  /\ partialY = None
  /\ train_loader = None
  /\ accum_step = None
  /\ requires_grad = {}
  /\ optim_params = {}
  /\ confidence = None
  /\ epoch_idx = 0
  /\ remaining = {}
  /\ delivered = [i \in Indices |-> 0]
  /\ trace = <<>>
  /\ evals = 0
  /\ saved = 0
  /\ head_init = <<>>
  /\ batch_device = <<>>

PlainConfig ==
  [batch_size |-> 1, micro_batch_size |-> 1, prec |-> "amp", loss_type |-> "PRODEN",
   num_epochs |-> 0, tte_mode |-> "none", init_head |-> "none"]

InitTest ==
  /\ IdleTrainer(PlainConfig)
  /\ pc = "evaluate"
  /\ image \in TestImages
  /\ output = None
  /\ tuner = None
  /\ head = None
  /\ checkpoint = None
  /\ ckpt_op = None
  /\ last_saved = <<>>

\* test() lines 521-544 for one batch of the loader
Test ==
  /\ pc = "evaluate"
  /\ output' = TestOutput(image.pixels, image.bsz, image.ncrops)
  /\ pc' = "evaluated"
  /\ UNCHANGED <<cfg, error, device, partialY, train_loader, accum_step, requires_grad,
                 optim_params, confidence, epoch_idx, remaining, delivered, trace,
                 evals, saved, head_init, batch_device, image, tuner, head, checkpoint,
                 ckpt_op,
                 last_saved>>

NextTest == Test

SpecTest == InitTest /\ [][NextTest]_vars

\* --------------------------------------------------- checkpoints on their own
MaxHeadDim == 2

Weights == {0, 1}
TunerKeys == {"adapter.down", "adapter.up"}
HeadKey == "weight"

\* a parameter tensor: its shape and its contents
Param(shape, data) == [shape |-> shape, data |-> data]

\* the tuner's parameter shapes are fixed by the backbone, the head's weight has
\* one row per class
TunerParams == {Param(<<1>>, w) : w \in Weights}
HeadParams == {Param(<<d>>, w) : d \in 1 .. MaxHeadDim, w \in Weights}

TunerDicts == [TunerKeys -> TunerParams]
HeadDicts == [{HeadKey} -> HeadParams]

\* state dicts a checkpoint file may hold for the tuner (any subset of the keys)
SavedTunerDicts == UNION {[K -> TunerParams] : K \in SUBSET TunerKeys}

NoFile == [exists |-> FALSE, tuner |-> <<>>, head |-> <<>>]

CheckpointFiles ==
  {NoFile} \cup {[exists |-> TRUE, tuner |-> t, head |-> h] :
                   t \in SavedTunerDicts, h \in HeadDicts}

\* save_model lines 568-571: a leading "module." is cut off a key
StripModulePrefix(k) ==
  CASE k = "module.adapter.down" -> "adapter.down"
    [] k = "module.adapter.up" -> "adapter.up"
    [] k = "module.weight" -> "weight"
    [] OTHER -> k

\* save_model lines 565-572: the state dict rebuilt under the stripped keys
StripModule(sd) ==
  [k \in {StripModulePrefix(j) : j \in DOMAIN sd} |->
     sd[CHOOSE j \in DOMAIN sd : StripModulePrefix(j) = k]]

\* variant: the checkpoint also carries the backbone's state dict
SavedCheckpointWithBackbone(t, h) ==
  [exists |-> TRUE, tuner |-> StripModule(t), head |-> StripModule(h),
   backbone |-> StripModule(t)]

\* save_model lines 557-576
SavedCheckpoint(t, h) ==
  [exists |-> TRUE, tuner |-> StripModule(t), head |-> StripModule(h)]

\* module.load_state_dict(sd, strict=False): keys on both sides are copied, other
\* keys are ignored, a tensor of another shape raises
LoadStateDict(module, sd) ==
  IF \E k \in DOMAIN module \cap DOMAIN sd : sd[k].shape # module[k].shape
  THEN Raised("RuntimeError")
  ELSE Returned([k \in DOMAIN module |-> IF k \in DOMAIN sd THEN sd[k] ELSE module[k]])

\* variant: the head is loaded whatever its shape
HeadShapeMatchesAlways(head_dict, h) == TRUE

\* load_model line 592
HeadShapeMatches(head_dict, h) == head_dict[HeadKey].shape = h[HeadKey].shape

InitCheckpoint ==
  /\ IdleTrainer(PlainConfig)
  /\ pc = "idle"
  /\ image = None
  /\ output = None
  /\ tuner \in TunerDicts
  /\ head \in HeadDicts
  /\ checkpoint \in CheckpointFiles
  /\ ckpt_op = None
  /\ last_saved = <<>>

\* save_model
SaveModel ==
  /\ pc = "idle"
  /\ checkpoint' = SavedCheckpoint(tuner, head)
  /\ ckpt_op' = "saved"
  /\ last_saved' = <<[tuner |-> tuner, head |-> head]>>
  /\ UNCHANGED <<training, image, output, tuner, head>>

\* another Trainer is constructed over the same output directory: build_model
\* creates its tuner and head, the checkpoint file stays as it is
NewTrainer ==
  /\ pc = "idle"
  /\ tuner' \in TunerDicts
  /\ head' \in HeadDicts
  /\ ckpt_op' = None
  /\ UNCHANGED <<training, image, output, checkpoint, last_saved>>

\* load_model
LoadModel ==
  /\ pc = "idle"
  /\ IF ~checkpoint.exists
     THEN /\ Crash("FileNotFoundError")
          /\ UNCHANGED <<tuner, head, ckpt_op>>
     ELSE LET t == LoadStateDict(tuner, checkpoint.tuner)
              h == IF HeadShapeMatches(checkpoint.head, head)
                   THEN LoadStateDict(head, checkpoint.head)
                   ELSE Returned(head)
          IN IF t.exc # None
             THEN /\ Crash(t.exc)
                  /\ UNCHANGED <<tuner, head, ckpt_op>>
             ELSE IF h.exc # None
             THEN /\ Crash(h.exc)
                  /\ tuner' = t.value
                  /\ UNCHANGED <<head, ckpt_op>>
             ELSE /\ tuner' = t.value
                  /\ head' = h.value
                  /\ ckpt_op' = "loaded"
                  /\ UNCHANGED <<pc, error>>
  /\ UNCHANGED <<cfg, device, partialY, train_loader, accum_step, requires_grad,
                 optim_params, confidence, epoch_idx, remaining, delivered, trace,
                 evals, saved, head_init, batch_device, image, output, checkpoint,
                 last_saved>>

NextCheckpoint == SaveModel \/ LoadModel \/ NewTrainer

SpecCheckpoint == InitCheckpoint /\ [][NextCheckpoint]_vars

\* ================================================================== claims
DataLoaded == "oracle" \in device
ConfidenceBuilt == "confidence" \in device
EpochBatchesOver == pc \in {"dist", "test"}

Count(S) == Cardinality(S)

\* exact sum of one confidence row
FracAdd(v, w) == [num |-> v.num * w.den + w.num * v.den, den |-> v.den * w.den]

RECURSIVE FracRowSum(_, _)
FracRowSum(row, k) ==
  IF k < 0 THEN TorchDiv(0, 1) ELSE FracAdd(row[k], FracRowSum(row, k - 1))

\* C1: every candidate matrix that candidate generation produced and load_fgvc100
\* handed to training has mask[i, true_label[i]] = 1 for every sample i, so every
\* row has at least one bit set.
C1_TrueLabelIsCandidate ==
  DataLoaded =>
    \A i \in Indices :
      /\ partialY[i][image_labels[i]] = 1
      /\ train_loader.given_partial_label_matrix[i][train_loader.labels[i]] = 1
      /\ RowSum(train_loader.given_partial_label_matrix, i) >= 1

C1_Witness ==
  /\ pc = "batch"
  /\ Len(trace) > 0
  /\ \E i \in Indices : RowSum(train_loader.given_partial_label_matrix, i) > 1
  /\ \E i \in Indices : RowSum(train_loader.given_partial_label_matrix, i) = 1

\* C2: when the sum of (mask AND one-hot true label) differs from N, data loading
\* aborts with a fatal generation error: no loader is returned, construction does
\* not go on and no algorithm update runs on that mask.
C2_FailedValidationAborts ==
  (DataLoaded /\ ~ValidationPasses(partialY, ori_labels)) =>
    /\ pc = "crashed"
    /\ error = "GenerationInvariantViolation"
    /\ Len(trace) = 0

\* C3: after build_criterion, every row with a non-empty candidate set holds
\* 1/(number of candidates) on each candidate, 0 elsewhere, and sums to 1; a
\* one-hot row of the mask yields the same one-hot confidence row.
C3_UniformOverCandidates ==
  ConfidenceBuilt =>
    \A i \in Indices :
      RowSum(partialY, i) > 0 =>
        /\ \A c \in Classes :
             /\ partialY[i][c] = 1 => FracEq(confidence[i][c], 1, RowSum(partialY, i))
             /\ partialY[i][c] = 0 => IsZero(confidence[i][c])
             /\ RowSum(partialY, i) = 1 => FracEq(confidence[i][c], partialY[i][c], 1)
        /\ FracEq(FracRowSum(confidence[i], NumClasses - 1), 1, 1)

C3_Witness ==
  /\ pc = "ready"
  /\ \E i \in Indices : RowSum(partialY, i) > 1
  /\ \E i \in Indices : RowSum(partialY, i) = 1

C5_EmptySupportFailsFast ==
  /\ ConfidenceBuilt =>
       \A i \in Indices : \A c \in Classes : ~IsNaN(confidence[i][c])
  /\ (ConfidenceBuilt /\ \E i \in Indices : RowSum(partialY, i) = 0) =>
       (pc = "crashed" /\ error = "NormalizationError")

\* C6 (as stated): when the batch loop of an epoch is over, every sample index
\* has been handed to update exactly once, whatever N and the batch size.
C6_EveryIndexExactlyOnce ==
  EpochBatchesOver => \A i \in Indices : delivered[i] = 1

\* C6 (amended): within an epoch no index is handed to update twice; when the
\* batch loop is over exactly (N div batch_size) * batch_size indices have been
\* handed over, once each, so all of them exactly when batch_size divides N.
C6_AtMostOnceFullBatchesOnly ==
  /\ \A i \in Indices : delivered[i] <= 1
  /\ EpochBatchesOver =>
       /\ Count({i \in Indices : delivered[i] = 1})
            = (NumInstances \div cfg.batch_size) * cfg.batch_size
       /\ (NumInstances % cfg.batch_size = 0) => \A i \in Indices : delivered[i] = 1

C6_Witness ==
  /\ pc = "test"
  /\ NumInstances % cfg.batch_size # 0
  /\ \E i \in Indices : delivered[i] = 0
  /\ \E i \in Indices : delivered[i] = 1

\* C7: in every epoch all batch updates come first, then distribution_update
\* (once for the algorithm that has the hook called, never for the others), then
\* the evaluation; no batch of the next epoch precedes the evaluation of this one.
AllUpdates == [k \in 1 .. (NumInstances \div cfg.batch_size) |-> "update"]
HookCalls == IF cfg.loss_type = "Solar" THEN <<"dist">> ELSE <<>>

C7_EpochOrder ==
  /\ pc = "batch" =>
       /\ evals = epoch_idx
       /\ \A k \in DOMAIN trace : trace[k] = "update"
  /\ pc = "dist" => trace = AllUpdates /\ cfg.loss_type = "Solar"
  /\ pc = "test" => trace = AllUpdates \o HookCalls
  /\ (pc \in {"epoch", "final_test", "done"} /\ epoch_idx > 0) =>
       /\ trace = AllUpdates \o HookCalls \o <<"test">>
       /\ evals >= epoch_idx

C7_Witness ==
  /\ pc = "test"
  /\ epoch_idx = 1
  /\ evals = 1
  /\ cfg.loss_type = "Solar"
  /\ Len(trace) > 2

\* C10: a configuration error (batch_size not divisible by micro_batch_size,
\* unsupported precision, unrecognized algorithm) ends construction before the
\* dataset is loaded and before anything is moved to the accelerator.
ConfigurationErrors ==
  {"AssertionError:batch_size", "AssertionError:prec", "NotImplementedError:algorithm"}

C10_ConfigErrorBeforeDevice ==
  error \in ConfigurationErrors => (device = {} /\ ~DataLoaded)

\* C8: for the same per-crop model outputs the vectorized path (at most 5 crops)
\* and the per-crop loop (more than 5) both complete and hand the evaluator the
\* per-sample mean over the crops of the class scores.
MeanOverCrops(img) ==
  Tensor([b \in 1 .. img.bsz |->
            TorchDiv(SumSeq(img.pixels.data[b], img.ncrops), img.ncrops)])

C8_CropPathsAgree ==
  pc = "evaluated" =>
    /\ output.exc = None
    /\ output.value = MeanOverCrops(image)

\* C9: load_model on an existing checkpoint whose head weight has another shape
\* than the current head completes without error, restores the tuner from the
\* checkpoint and leaves the head as it was; with equal shapes tuner and head are
\* both restored.
TunerRestored ==
  \A k \in TunerKeys :
    tuner'[k] = IF k \in DOMAIN checkpoint.tuner THEN checkpoint.tuner[k] ELSE tuner[k]

C9_LoadSkipsMismatchedHead ==
  [][(LoadModel /\ checkpoint.exists) =>
       /\ error' = None
       /\ ckpt_op' = "loaded"
       /\ TunerRestored
       /\ (checkpoint.head[HeadKey].shape # head[HeadKey].shape) => head' = head
       /\ (checkpoint.head[HeadKey].shape = head[HeadKey].shape) =>
            head' = checkpoint.head]_vars

C9_Witness ==
  /\ ckpt_op = "loaded"
  /\ error = None
  /\ checkpoint.head[HeadKey].shape # head[HeadKey].shape
  /\ checkpoint.head[HeadKey].data # head[HeadKey].data
  /\ DOMAIN checkpoint.tuner = TunerKeys
  /\ \A k \in TunerKeys : tuner[k] = checkpoint.tuner[k]

\* C11: exactly one of the known head initializations (text features, class mean,
\* linear probe, explicit no-op) is applied, once, before the first epoch, and a
\* cfg.init_head that is none of the known values is rejected at startup with a
\* ConfigurationError instead of falling through to no initialization.
KnownInitHeads ==
  {"text_feat", "class_mean", "1_shot", "10_shot", "100_shot", "linear_probe", "none"}

HeadInitOver == pc \in {"ready", "epoch", "batch", "dist", "test", "final_test", "done"}

C11_HeadInitExhaustive ==
  /\ cfg.init_head \notin KnownInitHeads =>
       /\ ~HeadInitOver
       /\ pc = "crashed" => error = "ConfigurationError"
  /\ cfg.init_head \in KnownInitHeads =>
       /\ error # "AttributeError"
       /\ HeadInitOver => head_init = <<HeadInitStrategy(cfg.init_head)>>

\* C12: the checkpoint save_model writes holds exactly the two state dicts "tuner"
\* and "head", under keys without a leading "module.", and nothing else; and
\* load_model, run after save_model in a trainer whose tuner and head have the
\* shapes of the saved ones, leaves that trainer's tuner and head equal to the
\* saved values.
Blobs(file) == DOMAIN file \ {"exists"}

C12_SaveLoadRoundTrip ==
  Len(last_saved) = 1 =>
    /\ checkpoint.exists
    /\ Blobs(checkpoint) = {"tuner", "head"}
    /\ checkpoint.tuner = last_saved[1].tuner
    /\ checkpoint.head = last_saved[1].head
    /\ DOMAIN checkpoint.tuner \subseteq TunerKeys
    /\ DOMAIN checkpoint.head = {HeadKey}
    /\ (ckpt_op = "loaded"
          /\ head[HeadKey].shape = last_saved[1].head[HeadKey].shape) =>
         /\ tuner = last_saved[1].tuner
         /\ head = last_saved[1].head

C12_Witness ==
  /\ Len(last_saved) = 1
  /\ ckpt_op = "loaded"
  /\ head[HeadKey].shape = last_saved[1].head[HeadKey].shape
  /\ tuner = checkpoint.tuner
  /\ head = checkpoint.head
  /\ error = None

\* C13: for every batch the training loop processes, the confidence rows handed to
\* algorithm.update are the rows of the Trainer's confidence matrix (the one
\* build_criterion initialized uniformly from the partial-label matrix) for exactly
\* that batch's sample indices.
UpdateReceived == pc = "batch" /\ Len(trace) > 0

C13_UpdateGetsStoreRows ==
  UpdateReceived =>
    \A i \in DOMAIN batch_device :
      /\ batch_device[i].index = i
      /\ \A c \in Classes :
           FracEq(confidence[i][c], batch_device[i].each_label[c], 1)

\* C14: after build_optimizer the parameters with gradients enabled are exactly
\* the parameters handed to the optimizer, namely the tuner's and the head's; the
\* backbone's parameters have gradients disabled and are not handed to the
\* optimizer. This holds for every algorithm name, DIRK, ABLE and PiCO included.
OptimizerBuilt == optim_params # {}

C14_TrainableIsTunerPlusHead ==
  OptimizerBuilt =>
    /\ requires_grad = {"tuner", "head"}
    /\ optim_params = {"tuner", "head"}
    /\ \A p \in requires_grad : p \in optim_params
    /\ "backbone" \notin requires_grad \cup optim_params

\* C15: train() runs to its end for every num_epochs: it never stops inside an
\* epoch or an evaluation, it runs exactly num_epochs epochs, each closed by one
\* evaluation, saves the checkpoint exactly once and only after the last epoch's
\* evaluation, and then evaluates once more, num_epochs + 1 evaluations in all;
\* with num_epochs = 0 no update runs, the checkpoint is saved and one evaluation
\* runs.
InTrain == pc \in {"ready", "epoch", "batch", "dist", "test", "final_test"}

C15_TrainRunsToCompletion ==
  /\ InTrain => ENABLED Train
  /\ error # TypeError
  /\ saved <= 1
  /\ saved = 1 => (epoch_idx = cfg.num_epochs /\ evals >= cfg.num_epochs)
  /\ pc = "final_test" => (saved = 1 /\ evals = cfg.num_epochs)
  /\ pc = "done" =>
       /\ epoch_idx = cfg.num_epochs
       /\ evals = cfg.num_epochs + 1
       /\ saved = 1
       /\ cfg.num_epochs = 0 => trace = <<>>

====
